---- MODULE Spec2Model ----
(***************************************************************************)
(* DynamicNavigation (src/scripts/navigation.ts): the expandable           *)
(* navigation bar, its delayed style callbacks (setTimeout), the scroll    *)
(* handler throttled by requestAnimationFrame, and the resize handler.     *)
(*                                                                         *)
(* Time is counted in ticks of 50 ms, the greatest common divisor of all   *)
(* the delays the code passes to setTimeout (100, 150 and 500 ms).         *)
(***************************************************************************)
EXTENDS Integers, Sequences, FiniteSets, TLC

\* ------------------------------------------------------------------ bounds
MaxToggles == 3          \* toggle activations in one behaviour of Spec
MaxTogglesMirror == 1    \* toggle activations in one behaviour of SpecMirror
MaxPendingFrames == 2    \* cap on queued frame callbacks (the code keeps 1)
MaxTogglesLive == 2      \* toggle activations in one behaviour of SpecLive

\* ------------------------------------------------------- program constants
MAX_NAV_ROWS == 5
ANIMATION_DURATION == 500
STAGGER_MS == 100
TITLE_EXTRA_MS == 100
RESET_DELAY_MS == 150
scrollThreshold == 10
WIDE_BREAKPOINT == 768
LAST_NAV_ROW_ID == 2

Ticks(ms) == ms \div 50

\* ------------------------------------------------------------ style values
\* element.style.transform: '' (never written), translateY(<d>px) or
\* translateY(-100%)
Unset == [u |-> "unset", d |-> 0]
Px(d) == [u |-> "px", d |-> d]
Pct(d) == [u |-> "pct", d |-> d]
\* style.maxHeight = '0' (a bare number, no unit)
Bare(d) == [u |-> "bare", d |-> d]

IsIdentity(t) == t.u = "unset" \/ t.d = 0

\* ------------------------------------------------------------------- pages
\* The document the script is loaded into: which identified elements exist,
\* the offsetHeight of nav-row-1 / nav-row-2 and the initial viewport width.
FullPage ==
  [nav |-> {1, 2}, title |-> {1, 2}, container |-> TRUE, content |-> TRUE,
   toggle |-> TRUE, button |-> TRUE, label |-> TRUE,
   h |-> <<40, 60>>, width |-> 1024]

\* the pages of Spec: each identified element present or absent
Pages ==
  { FullPage,
    [FullPage EXCEPT !.container = FALSE],
    [FullPage EXCEPT !.content = FALSE],
    [FullPage EXCEPT !.toggle = FALSE],
    [FullPage EXCEPT !.button = FALSE],
    [FullPage EXCEPT !.label = FALSE],
    [FullPage EXCEPT !.nav = {1}],
    [FullPage EXCEPT !.nav = {2}],
    [FullPage EXCEPT !.nav = {}],
    [FullPage EXCEPT !.title = {1}],
    [FullPage EXCEPT !.title = {2}],
    [FullPage EXCEPT !.title = {}] }

\* the pages of SpecMirror: row heights and viewport widths vary
MirrorPages ==
  { [FullPage EXCEPT !.h = hs, !.width = 768] :
      hs \in {<<40, 60>>, <<60, 40>>, <<30, 0>>} }
  \cup { [FullPage EXCEPT !.width = 767],
          [FullPage EXCEPT !.nav = {1}],
          [FullPage EXCEPT !.button = FALSE] }

\* scrollTop values of Spec and of SpecMirror
ScrollPositions == {0, 70}
MirrorScrollPositions == {0, 10, 30, 50, 70, 120}
\* window.innerWidth values of Spec and of SpecMirror
Widths == {767, 1024}
MirrorWidths == {767, 768}

VARIABLES
  page,                  \* the document (never changes)
  threw,                 \* the constructor raised a TypeError
  navRows,               \* this.navRows: ids of the resolved nav rows
  titleRows,             \* this.titleRows: ids of the resolved title rows
  displayedRowRegistry,  \* this.displayedRowRegistry
  isNavExpanded,         \* this.isNavExpanded
  lastScrollTop,         \* this.lastScrollTop
  scrollTop,             \* contentScroll.scrollTop
  ticking,               \* the closure flag of the scroll listener
  frames,                \* pending requestAnimationFrame callbacks
  timers,                \* pending setTimeout callbacks, in registration order
  totalMovedDistance,    \* the closure variable of each collapse call
  navT,                  \* style.transform of nav-row-i
  navO,                  \* style.opacity of nav-row-i
  titleT,                \* style.transform of title-row-i
  contentT,              \* style.transform of content-scroll
  maxHeight,             \* style.maxHeight of dynamic-nav-container
  label,                 \* textContent of the toggle's span
  btn,                   \* position / top / right of toggle-button
  innerWidth,            \* window.innerWidth
  toggles,               \* number of toggle activations so far
  sinceCollapse,         \* ticks since the last toggle to collapsed, -1 if none
  lastOp,                \* the step that produced this state
  regionWhichTheTextIsAt, \* this.regionWhichTheTextIsAt
  solo,                  \* the last toggle was a collapse with no callback pending
  rects,                 \* getBoundingClientRect() of each registry row
  foldTimers,            \* callbacks registered by expandRow, in order
  foldResult,            \* the last call of the fold helpers and what it returned
  mirrorHeld,            \* a frame callback ran while expanded since the last toggle
  requestedTop           \* scrollTop when the pending frame callback was
                         \* requested, 0 when none is pending

vars ==
  <<page, threw, navRows, titleRows, displayedRowRegistry, isNavExpanded,
    lastScrollTop, scrollTop, ticking, frames, timers, totalMovedDistance,
    navT, navO, titleT, contentT, maxHeight, label, btn, innerWidth,
    toggles, sinceCollapse, lastOp, regionWhichTheTextIsAt, solo, rects,
    foldTimers, foldResult, mirrorHeld, requestedTop>>

\* the state of the fold helpers (isRowFolded, expandRow, expandRowFromIndex)
foldVars == <<rects, foldTimers, foldResult>>

\* ----------------------------------------------------------------- helpers
NavIds == 1 .. LAST_NAV_ROW_ID
TitleIds == 1 .. 2

RECURSIVE SumTo(_, _)
\* sum of the first k entries of a sequence of numbers
SumTo(s, k) == IF k = 0 THEN 0 ELSE s[k] + SumTo(s, k - 1)

\* element.offsetHeight of nav-row-id
offsetHeight(id) == page.h[id]

\* navRows.map(row => row.offsetHeight)
navRowHeights == [k \in 1 .. Len(navRows) |-> offsetHeight(navRows[k])]

Op(op, kind, batch, idx, at) ==
  [op |-> op, kind |-> kind, batch |-> batch, idx |-> idx, at |-> at]

UnsetButton == [position |-> "", top |-> "", right |-> ""]

\* a faulty variant: the breakpoint itself counts as narrow
ButtonPlacement_exclusive(w) ==
  IF w > WIDE_BREAKPOINT
    THEN [position |-> "absolute", top |-> "20px", right |-> "calc(30% + 20px)"]
    ELSE [position |-> "fixed", top |-> "20px", right |-> "20px"]

\* updateButtonPosition(), lines 400-410: the style written for width w
ButtonPlacement(w) ==
  IF w >= WIDE_BREAKPOINT
    THEN [position |-> "absolute", top |-> "20px", right |-> "calc(30% + 20px)"]
    ELSE [position |-> "fixed", top |-> "20px", right |-> "20px"]

updateButtonPosition(p, w, old) ==
  IF ~p.button THEN old ELSE ButtonPlacement(w)

\* a faulty variant: the two branches of lines 323-331 are swapped
updateToggleButton_inverted(p, expanded, old) ==
  IF ~p.toggle THEN old
  ELSE IF ~p.label THEN old
  ELSE IF expanded THEN "More" ELSE "Less"

\* updateToggleButton(): the label after the call
updateToggleButton(p, expanded, old) ==
  IF ~p.toggle THEN old
  ELSE IF ~p.label THEN old
  ELSE IF expanded THEN "Less" ELSE "More"

\* ------------------------------------------------------------ construction
\* line 44 reads navRow1!.offsetHeight: a TypeError when nav-row-1 is absent
ConstructorThrows(p) == 1 \notin p.nav

\* initializeNavRows(): the nav rows that resolved, in id order
ResolvedNavRows(p) == SelectSeq(<<1, 2>>, LAMBDA i : i \in p.nav)
ResolvedTitleRows(p) == SelectSeq(<<1, 2>>, LAMBDA i : i \in p.title)

Elem(t, i) == [t |-> t, i |-> i]
Undefined == Elem("undefined", 0)

InitialRegistry(p) ==
  <<IF ResolvedNavRows(p) = <<>> THEN Undefined
    ELSE Elem("nav", ResolvedNavRows(p)[1])>>
  \o [k \in 1 .. Len(ResolvedTitleRows(p)) |->
        Elem("title", ResolvedTitleRows(p)[k])]

\* no fold helper has been called yet
NoCall ==
  [fn |-> "", row |-> 0, base |-> 0, folded |-> FALSE, distance |-> 0,
   result |-> 0, calls |-> <<>>]

InitOn(pages) ==
  /\ page \in pages
  /\ threw = ConstructorThrows(page)
  /\ navRows = IF threw THEN <<>> ELSE ResolvedNavRows(page)
  /\ titleRows = IF threw THEN <<>> ELSE ResolvedTitleRows(page)
  /\ displayedRowRegistry = IF threw THEN <<>> ELSE InitialRegistry(page)
  /\ isNavExpanded = FALSE
  /\ lastScrollTop = 0
  /\ scrollTop = 0
  /\ ticking = FALSE
  /\ frames = 0
  /\ timers = <<>>
  /\ totalMovedDistance = <<>>
  /\ navT = [i \in NavIds |-> IF ~threw /\ i \in page.nav THEN Px(0) ELSE Unset]
  /\ navO = [i \in NavIds |-> IF ~threw /\ i \in page.nav THEN "1" ELSE ""]
  /\ titleT = [i \in TitleIds |->
                 IF ~threw /\ i \in page.title THEN Px(0) ELSE Unset]
  /\ contentT = Unset
  /\ maxHeight = Unset
  /\ label = IF threw THEN "" ELSE updateToggleButton(page, FALSE, "")
  /\ innerWidth = page.width
  /\ btn = IF threw THEN UnsetButton
           ELSE updateButtonPosition(page, page.width, UnsetButton)
  /\ toggles = 0
  /\ sinceCollapse = -1
  /\ lastOp = Op("init", "", 0, 0, 0)
  /\ regionWhichTheTextIsAt = 1
  /\ solo = FALSE
  /\ foldTimers = <<>>
  /\ foldResult = NoCall
  /\ mirrorHeld = FALSE
  /\ requestedTop = 0

\* ---------------------------------------------------------- delayed calls
\* setTimeout(callback, ms): rem = ticks left, at = ticks since registration
Timer(ms, kind, batch, idx, el) ==
  [rem |-> Ticks(ms), at |-> 0, kind |-> kind, batch |-> batch,
   idx |-> idx, el |-> el]

\* a faulty variant: the stagger starts at 100 ms instead of 0
ExpandTimers_late(b) ==
  [k \in 1 .. Len(navRows) |->
     Timer(k * STAGGER_MS, "expandRow", b, k - 1, navRows[k])]
  \o <<Timer(Len(navRows) * STAGGER_MS + TITLE_EXTRA_MS, "expandTitles", b, -1, 0)>>

\* expandNavRows(), lines 240-252: one callback per nav row at index * 100,
\* then the title reset at navRows.length * 100 + 100
ExpandTimers(b) ==
  [k \in 1 .. Len(navRows) |->
     Timer((k - 1) * STAGGER_MS, "expandRow", b, k - 1, navRows[k])]
  \o <<Timer(Len(navRows) * STAGGER_MS + TITLE_EXTRA_MS, "expandTitles", b, -1, 0)>>

\* a faulty variant: the rows are hidden first to last (delay index * 100)
CollapseTimers_forward(b) ==
  [k \in 1 .. Len(navRows) |->
     Timer((k - 1) * STAGGER_MS, "hideRow", b, k - 1, navRows[k])]
  \o <<Timer(Len(navRows) * STAGGER_MS + ANIMATION_DURATION, "hideContainer",
             b, -1, 0)>>

\* a faulty variant: the container callback does not wait ANIMATION_DURATION
CollapseTimers_noDuration(b) ==
  [k \in 1 .. Len(navRows) |->
     Timer((Len(navRows) - 1 - (k - 1)) * STAGGER_MS, "hideRow", b, k - 1,
           navRows[k])]
  \o <<Timer(Len(navRows) * STAGGER_MS, "hideContainer", b, -1, 0)>>

\* collapseNavRowsWithContentMovement(), lines 264-312: one callback per nav
\* row at (length - 1 - index) * 100, then the container callback
CollapseTimers(b) ==
  [k \in 1 .. Len(navRows) |->
     Timer((Len(navRows) - 1 - (k - 1)) * STAGGER_MS, "hideRow", b, k - 1,
           navRows[k])]
  \o <<Timer(Len(navRows) * STAGGER_MS + ANIMATION_DURATION, "hideContainer",
             b, -1, 0)>>

\* a faulty variant: the early return of line 228 is missing
expandNavRows_unguarded(b) ==
  /\ maxHeight' = Px(SumTo(navRowHeights, Len(navRows)))
  /\ timers' = timers \o ExpandTimers(b)

\* expandNavRows(): the synchronous part
expandNavRows(b) ==
  IF ~page.container
    THEN /\ maxHeight' = maxHeight
         /\ timers' = timers
    ELSE /\ maxHeight' = Px(SumTo(navRowHeights, Len(navRows)))
         /\ timers' = timers \o ExpandTimers(b)

\* a faulty variant: a collapse clears the callbacks that are still pending
collapseNavRowsWithContentMovement_cancelling(b) ==
  IF ~page.container
    THEN timers' = timers
    ELSE timers' = CollapseTimers(b)

\* collapseNavRowsWithContentMovement(): the synchronous part
collapseNavRowsWithContentMovement(b) ==
  IF ~page.container
    THEN timers' = timers
    ELSE timers' = timers \o CollapseTimers(b)

\* a faulty variant: the flag is flipped only when the container exists
toggledState_guarded(expanded) ==
  IF page.container THEN ~expanded ELSE expanded

\* line 129: this.isNavExpanded = !this.isNavExpanded
toggledState(expanded) == ~expanded

\* toggleNavExpansion(), the click listener of nav-toggle
Toggle(maxToggles) ==
  /\ ~threw
  /\ page.toggle
  /\ toggles < maxToggles
  /\ toggles' = toggles + 1
  /\ isNavExpanded' = toggledState(isNavExpanded)
  /\ totalMovedDistance' = Append(totalMovedDistance, 0)
  /\ IF isNavExpanded'
       THEN /\ expandNavRows(toggles')
            /\ sinceCollapse' = -1
       ELSE /\ collapseNavRowsWithContentMovement(toggles')
            /\ maxHeight' = maxHeight
            /\ sinceCollapse' = 0
  /\ label' = updateToggleButton(page, isNavExpanded', label)
  /\ lastOp' = Op("toggle", "", toggles', -1, 0)
  /\ solo' = (~isNavExpanded' /\ timers = <<>>)
  /\ mirrorHeld' = FALSE
  /\ UNCHANGED <<regionWhichTheTextIsAt, foldVars, requestedTop>>
  /\ UNCHANGED <<page, threw, navRows, titleRows, displayedRowRegistry,
                 lastScrollTop, scrollTop, ticking, frames, navT, navO,
                 titleT, contentT, btn, innerWidth>>

\* ------------------------------------------------------------------ scroll
\* a faulty variant: line 119 (ticking = true) is missing
scrollListener_unthrottled(tk, fr) ==
  IF ~tk THEN [ticking |-> tk, frames |-> fr + 1]
         ELSE [ticking |-> tk, frames |-> fr]

\* the scroll listener, lines 109-120: request a frame unless one is pending
scrollListener(tk, fr) ==
  IF ~tk THEN [ticking |-> TRUE, frames |-> fr + 1]
         ELSE [ticking |-> tk, frames |-> fr]

\* a scroll event on content-scroll, lines 108-121
Scroll(s) ==
  /\ ~threw
  /\ page.content
  /\ frames < MaxPendingFrames
  /\ scrollTop' = s
  /\ frames' = scrollListener(ticking, frames).frames
  /\ ticking' = scrollListener(ticking, frames).ticking
  /\ lastOp' = Op("scroll", IF ticking THEN "coalesced" ELSE "requested", 0, -1, s)
  /\ requestedTop' = IF ticking THEN requestedTop ELSE s
  /\ UNCHANGED <<regionWhichTheTextIsAt, solo, foldVars, mirrorHeld>>
  /\ UNCHANGED <<page, threw, navRows, titleRows, displayedRowRegistry,
                 isNavExpanded, lastScrollTop, timers, totalMovedDistance,
                 navT, navO, titleT, contentT, maxHeight, label, btn,
                 innerWidth, toggles, sinceCollapse>>

\* the index (1-based) of nav row id in navRows, 0 if it is not registered
IndexOf(id) ==
  IF \E k \in 1 .. Len(navRows) : navRows[k] = id
    THEN CHOOSE k \in 1 .. Len(navRows) : navRows[k] = id
    ELSE 0

\* a faulty variant: the clamp at the row's height (lines 377-379) is missing
moveDistance_unclamped(totalScroll, k) ==
  LET startPosition == SumTo(navRowHeights, k - 1)
      scrollBeyondStart == totalScroll - startPosition
  IN IF totalScroll >= startPosition THEN -scrollBeyondStart ELSE 0

\* updateHeaders(), lines 374-390: the translation of the header at index k
\* (1-based) for totalScroll > 0
moveDistance(totalScroll, k) ==
  LET startPosition == SumTo(navRowHeights, k - 1)
      height == navRowHeights[k]
      scrollBeyondStart == totalScroll - startPosition
  IN IF totalScroll >= startPosition
       THEN IF scrollBeyondStart >= height THEN -height ELSE -scrollBeyondStart
       ELSE 0

\* lines 343-346: every registered nav row back to translateY(0)
resetHeadersT ==
  [i \in NavIds |-> IF IndexOf(i) > 0 THEN Px(0) ELSE navT[i]]

\* lines 354-391: every registered nav row moved by its moveDistance
progressiveHeadersT(totalScroll) ==
  [i \in NavIds |->
     IF IndexOf(i) > 0 THEN Px(moveDistance(totalScroll, IndexOf(i)))
     ELSE navT[i]]

\* a faulty variant: the isNavExpanded checks of lines 342 and 352 are missing
updateHeadersT_unconditional(s, expanded) ==
  LET totalScroll == s - scrollThreshold
  IN IF totalScroll <= 0 THEN resetHeadersT
     ELSE progressiveHeadersT(totalScroll)

\* updateHeaders(scrollTop): style.transform of the nav rows after the call
updateHeadersT(s, expanded) ==
  LET totalScroll == s - scrollThreshold
  IN IF totalScroll <= 0
       THEN IF expanded THEN resetHeadersT ELSE navT
       ELSE IF expanded THEN progressiveHeadersT(totalScroll) ELSE navT

\* updateHeaders(scrollTop): style.opacity of the nav rows after the call
updateHeadersO(s, expanded) ==
  LET totalScroll == s - scrollThreshold
  IN IF totalScroll <= 0 /\ expanded
       THEN [i \in NavIds |-> IF IndexOf(i) > 0 THEN "1" ELSE navO[i]]
       ELSE navO

\* a faulty variant: the position is read when the scroll event arrives
frameScrollTop_atEvent(current, atEvent) == atEvent

\* line 113: target.scrollTop is read inside the frame callback
frameScrollTop(current, atEvent) == current

\* the requestAnimationFrame callback, lines 110-118
RunFrame ==
  /\ frames > 0
  /\ frames' = frames - 1
  /\ LET top == frameScrollTop(scrollTop, requestedTop)
     IN /\ navT' = updateHeadersT(top, isNavExpanded)
        /\ navO' = updateHeadersO(top, isNavExpanded)
        /\ lastScrollTop' = top
        /\ lastOp' = Op("frame",
                        IF isNavExpanded THEN "expanded" ELSE "collapsed",
                        requestedTop, -1, top)
  /\ ticking' = FALSE
  /\ mirrorHeld' = isNavExpanded
  /\ requestedTop' = 0
  /\ UNCHANGED <<regionWhichTheTextIsAt, solo, foldVars>>
  /\ UNCHANGED <<page, threw, navRows, titleRows, displayedRowRegistry,
                 isNavExpanded, scrollTop, timers, totalMovedDistance,
                 titleT, contentT, maxHeight, label, btn, innerWidth,
                 toggles, sinceCollapse>>

\* ------------------------------------------------------------------ resize
\* the resize listener of window, line 124
Resize(w) ==
  /\ innerWidth' = w
  /\ btn' = IF threw THEN btn ELSE updateButtonPosition(page, w, btn)
  /\ lastOp' = Op("resize", "", 0, -1, w)
  /\ UNCHANGED <<regionWhichTheTextIsAt, solo, foldVars, mirrorHeld,
                 requestedTop>>
  /\ UNCHANGED <<page, threw, navRows, titleRows, displayedRowRegistry,
                 isNavExpanded, lastScrollTop, scrollTop, ticking, frames,
                 timers, totalMovedDistance, navT, navO, titleT, contentT,
                 maxHeight, label, toggles, sinceCollapse>>

\* ------------------------------------------------------------------ timers
RemoveAt(s, i) == SubSeq(s, 1, i - 1) \o SubSeq(s, i + 1, Len(s))

\* Timer i is due, and no due timer registered before it must run first.
\* Two due timers registered in the same tick run in registration order;
\* registered in different ticks, their order within the tick is open.
CanFire(i) ==
  /\ timers[i].rem = 0
  /\ \A j \in 1 .. i - 1 : timers[j].rem = 0 => timers[j].at > timers[i].at

\* the callbacks of expandNavRows, lines 241-244 and 248-252
FireExpandRow(t, rest) ==
  /\ navT' = [navT EXCEPT ![t.el] = Px(0)]
  /\ navO' = [navO EXCEPT ![t.el] = "1"]
  /\ timers' = rest
  /\ UNCHANGED <<titleT, contentT, maxHeight, totalMovedDistance>>

FireExpandTitles(t, rest) ==
  /\ titleT' = [i \in TitleIds |->
                  IF \E k \in 1 .. Len(titleRows) : titleRows[k] = i
                    THEN Px(0) ELSE titleT[i]]
  /\ timers' = rest
  /\ UNCHANGED <<navT, navO, contentT, maxHeight, totalMovedDistance>>

\* a faulty variant: the content moves by the row's own height, the running
\* total of line 274 is not used
FireHideRow_noAccumulate(t, rest) ==
  LET moved == navRowHeights[t.idx + 1]
  IN /\ navT' = [navT EXCEPT ![t.el] = Pct(-100)]
     /\ navO' = [navO EXCEPT ![t.el] = "0"]
     /\ totalMovedDistance' = [totalMovedDistance EXCEPT ![t.batch] = moved]
     /\ titleT' = [i \in TitleIds |->
                     IF \E k \in 1 .. Len(titleRows) : titleRows[k] = i
                       THEN Px(-moved) ELSE titleT[i]]
     /\ contentT' = IF page.content THEN Px(-moved) ELSE contentT
     /\ timers' = rest
     /\ UNCHANGED maxHeight

\* the row callback of collapseNavRowsWithContentMovement, lines 268-286
FireHideRow(t, rest) ==
  LET moved == totalMovedDistance[t.batch] + navRowHeights[t.idx + 1]
  IN /\ navT' = [navT EXCEPT ![t.el] = Pct(-100)]
     /\ navO' = [navO EXCEPT ![t.el] = "0"]
     /\ totalMovedDistance' = [totalMovedDistance EXCEPT ![t.batch] = moved]
     /\ titleT' = [i \in TitleIds |->
                     IF \E k \in 1 .. Len(titleRows) : titleRows[k] = i
                       THEN Px(-moved) ELSE titleT[i]]
     /\ contentT' = IF page.content THEN Px(-moved) ELSE contentT
     /\ timers' = rest
     /\ UNCHANGED maxHeight

\* the container callback, lines 290-312: hides the container and
\* registers the reset callback
FireHideContainer(t, rest) ==
  /\ maxHeight' = Bare(0)
  /\ timers' = Append(rest, Timer(RESET_DELAY_MS, "reset", t.batch, -1, 0))
  /\ UNCHANGED <<navT, navO, titleT, contentT, totalMovedDistance>>

\* a faulty variant: the reset callback registers itself again
FireReset_rescheduling(t, rest) ==
  /\ navT' = [i \in NavIds |-> IF IndexOf(i) > 0 THEN Px(0) ELSE navT[i]]
  /\ navO' = [i \in NavIds |-> IF IndexOf(i) > 0 THEN "1" ELSE navO[i]]
  /\ titleT' = [i \in TitleIds |->
                  IF \E k \in 1 .. Len(titleRows) : titleRows[k] = i
                    THEN Px(0) ELSE titleT[i]]
  /\ contentT' = IF page.content THEN Px(0) ELSE contentT
  /\ timers' = Append(rest, Timer(RESET_DELAY_MS, "reset", t.batch, -1, 0))
  /\ UNCHANGED <<maxHeight, totalMovedDistance>>

\* the reset callback, lines 294-310
FireReset(t, rest) ==
  /\ navT' = [i \in NavIds |-> IF IndexOf(i) > 0 THEN Px(0) ELSE navT[i]]
  /\ navO' = [i \in NavIds |-> IF IndexOf(i) > 0 THEN "1" ELSE navO[i]]
  /\ titleT' = [i \in TitleIds |->
                  IF \E k \in 1 .. Len(titleRows) : titleRows[k] = i
                    THEN Px(0) ELSE titleT[i]]
  /\ contentT' = IF page.content THEN Px(0) ELSE contentT
  /\ timers' = rest
  /\ UNCHANGED <<maxHeight, totalMovedDistance>>

FireTimer(i) ==
  /\ i \in 1 .. Len(timers)
  /\ CanFire(i)
  /\ LET t == timers[i]
         rest == RemoveAt(timers, i)
     IN /\ CASE t.kind = "expandRow" -> FireExpandRow(t, rest)
             [] t.kind = "expandTitles" -> FireExpandTitles(t, rest)
             [] t.kind = "hideRow" -> FireHideRow(t, rest)
             [] t.kind = "hideContainer" -> FireHideContainer(t, rest)
             [] t.kind = "reset" -> FireReset(t, rest)
        /\ lastOp' = Op("timer", t.kind, t.batch, t.idx, t.at)
  /\ UNCHANGED <<regionWhichTheTextIsAt, solo, foldVars, mirrorHeld,
                 requestedTop>>
  /\ UNCHANGED <<page, threw, navRows, titleRows, displayedRowRegistry,
                 isNavExpanded, lastScrollTop, scrollTop, ticking, frames,
                 label, btn, innerWidth, toggles, sinceCollapse>>

\* the length of a collapse's delay chain, in ticks:
\* navRows.length * 100 + ANIMATION_DURATION, then 150
ChainTicks ==
  Ticks(Len(navRows) * STAGGER_MS + ANIMATION_DURATION) + Ticks(RESET_DELAY_MS)

\* 50 ms pass: no callback is due
Tick ==
  /\ \A i \in 1 .. Len(timers) : timers[i].rem > 0
  /\ timers # <<>> \/ (sinceCollapse >= 0 /\ sinceCollapse < ChainTicks)
  /\ timers' = [i \in 1 .. Len(timers) |->
                  [timers[i] EXCEPT !.rem = @ - 1, !.at = @ + 1]]
  /\ sinceCollapse' = IF sinceCollapse >= 0 /\ sinceCollapse < ChainTicks
                        THEN sinceCollapse + 1 ELSE sinceCollapse
  /\ lastOp' = Op("tick", "", 0, -1, 0)
  /\ UNCHANGED <<regionWhichTheTextIsAt, solo, foldVars, mirrorHeld,
                 requestedTop>>
  /\ UNCHANGED <<page, threw, navRows, titleRows, displayedRowRegistry,
                 isNavExpanded, lastScrollTop, scrollTop, ticking, frames,
                 totalMovedDistance, navT, navO, titleT, contentT, maxHeight,
                 label, btn, innerWidth, toggles>>

\* ---------------------------------------------------------- specifications
\* every element present or absent, up to MaxToggles overlapping toggles
Init == InitOn(Pages) /\ rects = <<>>

Next ==
  \/ Toggle(MaxToggles)
  \/ \E s \in ScrollPositions : Scroll(s)
  \/ RunFrame
  \/ \E w \in Widths : Resize(w)
  \/ \E i \in 1 .. Len(timers) : FireTimer(i)
  \/ Tick

Spec == Init /\ [][Next]_vars

\* row heights, scroll positions and viewport widths vary
InitMirror == InitOn(MirrorPages) /\ rects = <<>>

NextMirror ==
  \/ Toggle(MaxTogglesMirror)
  \/ \E s \in MirrorScrollPositions : Scroll(s)
  \/ RunFrame
  \/ \E w \in MirrorWidths : Resize(w)
  \/ \E i \in 1 .. Len(timers) : FireTimer(i)
  \/ Tick

SpecMirror == InitMirror /\ [][NextMirror]_vars

\* the event loop: the browser runs every due delayed callback and every
\* requested frame callback, and time passes
LivePages ==
  { FullPage,
    [FullPage EXCEPT !.nav = {1}],
    [FullPage EXCEPT !.container = FALSE] }

InitLive == InitOn(LivePages) /\ rects = <<>>

NextLive ==
  \/ Toggle(MaxTogglesLive)
  \/ \E s \in ScrollPositions : Scroll(s)
  \/ RunFrame
  \/ \E i \in 1 .. Len(timers) : FireTimer(i)
  \/ Tick

SpecLive ==
  /\ InitLive
  /\ [][NextLive]_vars
  /\ WF_vars(RunFrame)
  /\ WF_vars(\E i \in 1 .. Len(timers) : FireTimer(i))
  /\ WF_vars(Tick)

\* ------------------------------------------------------------- accessors
MaxTogglesRegion == 1    \* toggle activations in one behaviour of SpecRegion

\* arguments passed to setCurrentRegion
Regions == {-1, 0, 2, 7, 8}

\* getCurrentRegion(), lines 414-416
getCurrentRegion == regionWhichTheTextIsAt

\* a faulty variant: the setter clamps its argument into 0 .. MAX_NAV_ROWS + 2
storedRegion_clamped(region) ==
  IF region < 0 THEN 0
  ELSE IF region > MAX_NAV_ROWS + 2 THEN MAX_NAV_ROWS + 2 ELSE region

\* line 419: this.regionWhichTheTextIsAt = region
storedRegion(region) == region

\* setCurrentRegion(region), lines 418-420
SetCurrentRegion(region) ==
  /\ ~threw
  /\ regionWhichTheTextIsAt' = storedRegion(region)
  /\ lastOp' = Op("setRegion", "", 0, -1, region)
  /\ UNCHANGED <<page, threw, navRows, titleRows, displayedRowRegistry,
                 isNavExpanded, lastScrollTop, scrollTop, ticking, frames,
                 timers, totalMovedDistance, navT, navO, titleT, contentT,
                 maxHeight, label, btn, innerWidth, toggles, sinceCollapse,
                 solo, foldVars, mirrorHeld, requestedTop>>

\* the public accessors called between the events of the page
InitRegion == InitOn({FullPage, [FullPage EXCEPT !.container = FALSE]})
              /\ rects = <<>>

NextRegion ==
  \/ Toggle(MaxTogglesRegion)
  \/ \E s \in ScrollPositions : Scroll(s)
  \/ RunFrame
  \/ \E w \in Widths : Resize(w)
  \/ \E i \in 1 .. Len(timers) : FireTimer(i)
  \/ Tick
  \/ \E r \in Regions : SetCurrentRegion(r)

SpecRegion == InitRegion /\ [][NextRegion]_vars

\* ------------------------------------------------------------ fold helpers
\* isRowFolded, expandRow and expandRowFromIndex (lines 147-192) read the
\* geometry of the registry rows.  Durations are products with
\* transitionPace = 100 / nav-row-1.offsetHeight; they are kept as their
\* numerators over that height (duration in ms = value / offsetHeight(1)).
MaxFoldTimers == 2       \* a helper is called while fewer callbacks are pending

\* getBoundingClientRect() values of a row
RectChoices ==
  {[top |-> t, bottom |-> t + h] : t \in {0, 20, 40}, h \in {20, 30}}

\* baseTime arguments of expandRow, as numerators
FoldBaseTimes == {0, 4000}

\* a faulty variant: a row that touches its predecessor counts as folded
isRowFolded_inclusive(k) ==
  IF k = 1 THEN FALSE ELSE rects[k].top <= rects[k - 1].bottom

\* isRowFolded(row), lines 147-158, for the row at registry index k (1-based)
isRowFolded(k) ==
  IF k = 1 THEN FALSE ELSE rects[k].top < rects[k - 1].bottom

\* line 172: row.top - predecessor.bottom
foldDistance(k) == rects[k].top - rects[k - 1].bottom

\* line 173: transitionPace * distance, as a numerator over offsetHeight(1)
foldScheduleTime(distance) == 100 * distance

\* lines 174-180: one callback at baseTime for the row and every row below
FoldCallbacks(k, baseTime, distance) ==
  [j \in 1 .. Len(displayedRowRegistry) - k + 1 |->
     [delay |-> baseTime, el |-> displayedRowRegistry[k + j - 1],
      distance |-> distance, scheduleTime |-> foldScheduleTime(distance)]]

\* expandRow(row, baseTime), lines 164-182: the value returned and the
\* callbacks registered
expandRow(k, baseTime) ==
  IF ~isRowFolded(k)
    THEN [ret |-> 0, folded |-> FALSE, distance |-> 0, cbs |-> <<>>]
    ELSE [ret |-> foldScheduleTime(foldDistance(k)), folded |-> TRUE,
          distance |-> foldDistance(k),
          cbs |-> FoldCallbacks(k, baseTime, foldDistance(k))]

RECURSIVE expandRowLoop(_, _, _)
\* the loop of expandRowFromIndex, lines 188-191, from registry index i
\* (1-based) down to index; acc holds scheduleTime, the callbacks registered
\* and the expandRow calls made so far
expandRowLoop(i, index, acc) ==
  IF i < index THEN acc
  ELSE LET r == expandRow(i, acc.scheduleTime)
       IN expandRowLoop(i - 1, index,
            [scheduleTime |-> acc.scheduleTime + r.ret,
             cbs |-> acc.cbs \o r.cbs,
             calls |-> Append(acc.calls,
                         [row |-> i, base |-> acc.scheduleTime, ret |-> r.ret])])

\* expandRowFromIndex(index), lines 185-192
expandRowFromIndex(index) ==
  expandRowLoop(Len(displayedRowRegistry), index,
                [scheduleTime |-> 0, cbs |-> <<>>, calls |-> <<>>])

FoldUnchanged ==
  UNCHANGED <<page, threw, navRows, titleRows, displayedRowRegistry,
              isNavExpanded, lastScrollTop, scrollTop, ticking, frames,
              timers, totalMovedDistance, contentT, maxHeight, label, btn,
              innerWidth, toggles, sinceCollapse, regionWhichTheTextIsAt,
              solo, mirrorHeld, requestedTop>>

\* a call of isRowFolded on registry row k
CallIsRowFolded(k) ==
  /\ ~threw
  /\ Len(foldTimers) < MaxFoldTimers
  /\ foldResult' = [NoCall EXCEPT !.fn = "isRowFolded", !.row = k,
                                  !.folded = isRowFolded(k)]
  /\ lastOp' = Op("isRowFolded", "", 0, k, 0)
  /\ UNCHANGED <<rects, foldTimers, navT, navO, titleT>>
  /\ FoldUnchanged

\* a call of expandRow on registry row k
CallExpandRow(k, baseTime) ==
  /\ ~threw
  /\ Len(foldTimers) < MaxFoldTimers
  /\ LET r == expandRow(k, baseTime)
     IN /\ foldTimers' = foldTimers \o r.cbs
        /\ foldResult' = [NoCall EXCEPT !.fn = "expandRow", !.row = k,
                                        !.base = baseTime,
                                        !.folded = r.folded,
                                        !.distance = r.distance,
                                        !.result = r.ret]
  /\ lastOp' = Op("expandRow", "", 0, k, baseTime)
  /\ UNCHANGED <<rects, navT, navO, titleT>>
  /\ FoldUnchanged

\* a call of expandRowFromIndex on registry index k (1-based)
CallExpandRowFromIndex(k) ==
  /\ ~threw
  /\ Len(foldTimers) < MaxFoldTimers
  /\ LET r == expandRowFromIndex(k)
     IN /\ foldTimers' = foldTimers \o r.cbs
        /\ foldResult' = [NoCall EXCEPT !.fn = "expandRowFromIndex", !.row = k,
                                        !.result = r.scheduleTime,
                                        !.calls = r.calls]
  /\ lastOp' = Op("expandRowFromIndex", "", 0, k, 0)
  /\ UNCHANGED <<rects, navT, navO, titleT>>
  /\ FoldUnchanged

\* setTimeout treats a negative delay as 0
EffectiveDelay(t) == IF t.delay < 0 THEN 0 ELSE t.delay

\* a callback registered earlier with a delay no longer than this one's
\* runs first; otherwise the time between the calls leaves the order open
CanFireFold(i) ==
  \A j \in 1 .. i - 1 :
    EffectiveDelay(foldTimers[j]) > EffectiveDelay(foldTimers[i])

\* line 177: style.transform = `translateY(-${distance}px)`.  For a negative
\* distance the text is translateY(--<n>px), which is not a valid transform:
\* the assignment is dropped and the style keeps its value.
foldTransform(old, distance) ==
  IF distance < 0 THEN old ELSE Px(-distance)

\* the translation, in px, a transform value moves the row's rectangle by
TranslationPx(t) == IF t.u = "px" THEN t.d ELSE 0

\* the callback of expandRow, lines 176-179
FireFoldTimer(i) ==
  /\ i \in 1 .. Len(foldTimers)
  /\ CanFireFold(i)
  /\ LET t == foldTimers[i]
         old == IF t.el.t = "nav" THEN navT[t.el.i] ELSE titleT[t.el.i]
         new == foldTransform(old, t.distance)
         shift == TranslationPx(new) - TranslationPx(old)
     IN /\ navT' = IF t.el.t = "nav" THEN [navT EXCEPT ![t.el.i] = new] ELSE navT
        /\ titleT' = IF t.el.t = "title" THEN [titleT EXCEPT ![t.el.i] = new]
                     ELSE titleT
        /\ rects' = [k \in 1 .. Len(rects) |->
                       IF displayedRowRegistry[k] = t.el
                         THEN [top |-> rects[k].top + shift,
                               bottom |-> rects[k].bottom + shift]
                         ELSE rects[k]]
        /\ lastOp' = Op("foldTimer", t.el.t, 0, t.el.i, t.distance)
  /\ foldTimers' = RemoveAt(foldTimers, i)
  /\ UNCHANGED <<navO, foldResult>>
  /\ FoldUnchanged

\* the fold helpers applied to every geometry of the registry rows
InitFold ==
  /\ InitOn({FullPage, [FullPage EXCEPT !.title = {1}],
             [FullPage EXCEPT !.title = {}]})
  /\ rects \in [1 .. Len(displayedRowRegistry) -> RectChoices]

NextFold ==
  \/ \E k \in 1 .. Len(displayedRowRegistry) : CallIsRowFolded(k)
  \/ \E k \in 1 .. Len(displayedRowRegistry), b \in FoldBaseTimes :
       CallExpandRow(k, b)
  \/ \E k \in 1 .. Len(displayedRowRegistry) : CallExpandRowFromIndex(k)
  \/ \E i \in 1 .. Len(foldTimers) : FireFoldTimer(i)

SpecFold == InitFold /\ [][NextFold]_vars

\* ------------------------------------------------------------- properties
\* getNavExpandedState(), lines 422-424
getNavExpandedState == isNavExpanded

Min(a, b) == IF a < b THEN a ELSE b
Max(a, b) == IF a > b THEN a ELSE b

\* every registered nav row at identity and opacity 1
NavRowsReset ==
  \A k \in 1 .. Len(navRows) :
    IsIdentity(navT[navRows[k]]) /\ navO[navRows[k]] = "1"

\* every registered title row and the content container at identity
ContentReset ==
  /\ \A k \in 1 .. Len(titleRows) : IsIdentity(titleT[titleRows[k]])
  /\ IsIdentity(contentT)

NoTimerDue == \A i \in 1 .. Len(timers) : timers[i].rem > 0

\* C1: after N toggle activations, whatever else was interleaved and whether
\* or not the container exists, getNavExpandedState() is true exactly when
\* N is odd.
C1_ExpandedIffOddToggles == getNavExpandedState <=> (toggles % 2 = 1)

C1_Witness ==
  /\ toggles = 3
  /\ getNavExpandedState
  /\ lastOp.op = "frame"
  /\ timers # <<>>

\* C2: once the delay chain of a toggle to collapsed has elapsed
\* (n*100 + 500 ms, then 150 ms) every nav row is at identity with opacity 1
\* and every title row and the content container are at identity.
C2_CollapseEndsReset ==
  (sinceCollapse = ChainTicks /\ NoTimerDue) => (NavRowsReset /\ ContentReset)

\* C3: a frame callback that runs while the expansion state is false leaves
\* the transform and opacity of every nav row, title row and the content
\* container unchanged.
C3_NoMirrorWhileCollapsed ==
  [][(lastOp'.op = "frame" /\ ~isNavExpanded)
       => (navT' = navT /\ navO' = navO /\ titleT' = titleT
           /\ contentT' = contentT)]_vars

\* a frame ran after the toggle to collapsed and left the mirrored
\* translation of nav-row-1 in place
C3_Witness ==
  /\ lastOp.op = "frame"
  /\ lastOp.kind = "collapsed"
  /\ lastOp.at = 70
  /\ toggles = 2
  /\ navT[1] = Px(-40)

\* C4: after a toggle to collapsed, once every pending callback has fired
\* and with no further toggle, every nav row's transform is identity.
C4_NoResidualTranslation ==
  (toggles > 0 /\ ~isNavExpanded /\ timers = <<>> /\ frames = 0)
    => \A k \in 1 .. Len(navRows) : IsIdentity(navT[navRows[k]])

\* C5: while expanded, the frame callback for scroll position s sets row i's
\* translation to -min(max(0, (s - 10) - sum(h0..h(i-1))), h_i).
C5_MirrorFormula ==
  (lastOp.op = "frame" /\ lastOp.kind = "expanded") =>
    \A k \in 1 .. Len(navRows) :
      navT[navRows[k]] =
        Px(-Min(Max(0, (lastOp.at - 10) - SumTo(navRowHeights, k - 1)),
                navRowHeights[k]))

\* heights [40, 60], s = 70: -40 for row 0 and -20 for row 1
C5_Witness ==
  /\ lastOp.op = "frame"
  /\ lastOp.kind = "expanded"
  /\ lastOp.at = 70
  /\ navRowHeights = <<40, 60>>
  /\ navT[1] = Px(-40)
  /\ navT[2] = Px(-20)

\* C6: on a toggle to expanded with n nav rows, row i is set to identity and
\* opacity 1 by a callback at i*100 ms, the title rows are reset by a callback
\* at n*100 + 100 ms; the row callbacks fire in index order and the title
\* reset after all of them.
C6_ExpandSchedule ==
  LET n == Len(navRows)
      SameBatchRows(maxIdx) ==
        {i \in 1 .. Len(timers) :
           /\ timers[i].batch = lastOp.batch
           /\ timers[i].kind = "expandRow"
           /\ timers[i].idx < maxIdx}
  IN /\ (lastOp.op = "toggle" /\ isNavExpanded /\ page.container) =>
          /\ Len(timers) >= n + 1
          /\ \A i \in 0 .. n - 1 :
               LET t == timers[Len(timers) - n + i]
               IN t.kind = "expandRow" /\ t.idx = i /\ t.rem * 50 = i * 100
          /\ timers[Len(timers)].kind = "expandTitles"
          /\ timers[Len(timers)].rem * 50 = n * 100 + 100
     /\ (lastOp.op = "timer" /\ lastOp.kind = "expandRow") =>
          /\ lastOp.at * 50 = lastOp.idx * 100
          /\ navT[navRows[lastOp.idx + 1]] = Px(0)
          /\ navO[navRows[lastOp.idx + 1]] = "1"
          /\ SameBatchRows(lastOp.idx) = {}
     /\ (lastOp.op = "timer" /\ lastOp.kind = "expandTitles") =>
          /\ lastOp.at * 50 = n * 100 + 100
          /\ \A k \in 1 .. Len(titleRows) : titleT[titleRows[k]] = Px(0)
          /\ SameBatchRows(n) = {}

\* n = 2: the title reset fires 300 ms after the toggle
C6_Witness ==
  /\ lastOp.op = "timer"
  /\ lastOp.kind = "expandTitles"
  /\ Len(navRows) = 2
  /\ lastOp.at = 6
  /\ Len(titleRows) = 2

\* C7: at most one frame callback is pending at any time; a scroll event
\* that arrives while one is pending schedules nothing, and a new one is
\* requested only after the pending one has run.
C7_OneFramePending ==
  /\ [](frames <= 1)
  /\ [][(lastOp'.op = "scroll" /\ frames > 0) => frames' = frames]_vars
  /\ [][frames' > frames => frames = 0]_vars

C7_Witness ==
  /\ lastOp.op = "scroll"
  /\ lastOp.kind = "coalesced"
  /\ frames = 1
  /\ scrollTop # lastScrollTop

\* C8: the toggle button's placement is a function of the viewport width
\* alone: fixed / 20px below 768, absolute / calc(30% + 20px) from 768 on.
C8_ButtonPlacement ==
  (~threw /\ page.button) =>
    /\ btn.position = (IF innerWidth < 768 THEN "fixed" ELSE "absolute")
    /\ btn.right = (IF innerWidth < 768 THEN "20px" ELSE "calc(30% + 20px)")

\* a resize to the boundary width while expanded, after a narrow viewport
C8_Witness ==
  /\ lastOp.op = "resize"
  /\ innerWidth = 768
  /\ page.width = 767
  /\ page.button
  /\ btn.position = "absolute"
  /\ isNavExpanded

\* C9: a row element that fails to resolve is omitted from its collection:
\* construction raises no error and the collections hold exactly the
\* resolved elements, never an undefined entry.
C9_SilentOmission ==
  /\ ~threw
  /\ navRows = ResolvedNavRows(page)
  /\ titleRows = ResolvedTitleRows(page)
  /\ \A k \in 1 .. Len(displayedRowRegistry) :
       displayedRowRegistry[k] # Undefined

\* C10: when the container is missing a toggle schedules no delayed callback
\* and changes no transform, opacity or max-height.
C10_ToggleNoOpWithoutContainer ==
  [][(toggles' # toggles /\ ~page.container)
       => (timers' = timers /\ navT' = navT /\ navO' = navO
           /\ titleT' = titleT /\ contentT' = contentT
           /\ maxHeight' = maxHeight)]_vars

C10_Witness ==
  /\ lastOp.op = "toggle"
  /\ ~page.container
  /\ toggles = 2
  /\ timers = <<>>
  /\ maxHeight = Unset

\* C11: getCurrentRegion() returns the value last passed to setCurrentRegion
\* (1 if it was never called); no toggle, frame callback, resize or timer
\* callback changes it.
C11_RegionCallerManaged ==
  /\ getCurrentRegion = 1
  /\ [](lastOp.op = "setRegion" => getCurrentRegion = lastOp.at)
  /\ [][lastOp'.op # "setRegion" => getCurrentRegion' = getCurrentRegion]_vars

\* the region set to 2 survived a toggle, a frame and the expand callbacks
C11_Witness ==
  /\ getCurrentRegion = 2
  /\ lastOp.op = "timer"
  /\ lastOp.kind = "expandTitles"
  /\ lastScrollTop = 70
  /\ innerWidth = 767

\* C12: the region indicator always lies in 0 .. MAX_NAV_ROWS + 2.
C12_RegionInRange == getCurrentRegion \in 0 .. MAX_NAV_ROWS + 2

\* C13: once the last callback of a toggle to expanded has fired
\* (n*100 + 100 ms) the title rows and the content container are both at
\* identity, also when an earlier collapse had translated the content.
C13_ExpandRestoresContent ==
  (lastOp.op = "timer" /\ lastOp.kind = "expandTitles" /\ lastOp.batch = toggles)
    => ContentReset

\* the pending callbacks of batch b of the given kind
PendingOf(b, kind) ==
  {i \in 1 .. Len(timers) : timers[i].batch = b /\ timers[i].kind = kind}

\* the delay, in ms, the code gives a callback of the given kind and index
ScheduledMs(kind, idx) ==
  LET n == Len(navRows)
  IN CASE kind = "expandRow" -> idx * 100
       [] kind = "expandTitles" -> n * 100 + 100
       [] kind = "hideRow" -> (n - 1 - idx) * 100
       [] kind = "hideContainer" -> n * 100 + 500
       [] kind = "reset" -> 150

\* C14: a toggle never cancels callbacks scheduled by an earlier toggle:
\* each still fires at its own scheduled time, so overlapping batches
\* interleave in order of fire time.
C14_NoCancellation ==
  /\ [][lastOp'.op = "toggle"
          => (Len(timers') >= Len(timers)
              /\ SubSeq(timers', 1, Len(timers)) = timers)]_vars
  /\ [][Len(timers') < Len(timers)
          => (lastOp'.op = "timer" /\ Len(timers') = Len(timers) - 1)]_vars
  /\ [][lastOp'.op = "tick" => NoTimerDue]_vars
  /\ [](lastOp.op = "timer"
          => lastOp.at * 50 = ScheduledMs(lastOp.kind, lastOp.idx))

\* a row-hide callback of the first collapse fires after the re-expand and
\* overwrites the row's style
C14_Witness ==
  /\ lastOp.op = "timer"
  /\ lastOp.kind = "hideRow"
  /\ lastOp.batch = 2
  /\ toggles = 3
  /\ isNavExpanded
  /\ navT[navRows[lastOp.idx + 1]] = Pct(-100)
  /\ PendingOf(3, "expandTitles") # {}

\* C15: in a collapse of n nav rows, row i is moved out of view
\* (translateY(-100%), opacity 0) at (n-1-i)*100 ms: last row first, row 0
\* last.
C15_ReverseStagger ==
  LET n == Len(navRows)
  IN /\ (lastOp.op = "toggle" /\ ~isNavExpanded /\ page.container) =>
          /\ Len(timers) >= n + 1
          /\ \A i \in 0 .. n - 1 :
               LET t == timers[Len(timers) - n + i]
               IN /\ t.kind = "hideRow"
                  /\ t.idx = i
                  /\ t.rem * 50 = (n - 1 - i) * 100
     /\ (lastOp.op = "timer" /\ lastOp.kind = "hideRow") =>
          /\ lastOp.at * 50 = (n - 1 - lastOp.idx) * 100
          /\ navT[navRows[lastOp.idx + 1]] = Pct(-100)
          /\ navO[navRows[lastOp.idx + 1]] = "0"
          /\ \A i \in PendingOf(lastOp.batch, "hideRow") :
               timers[i].idx < lastOp.idx

\* n = 2: row 0 is hidden 100 ms after the toggle, after row 1
C15_Witness ==
  /\ lastOp.op = "timer"
  /\ lastOp.kind = "hideRow"
  /\ lastOp.idx = 0
  /\ lastOp.at = 2
  /\ Len(navRows) = 2
  /\ navT[2] = Pct(-100)

\* the nav rows (1-based index) the latest collapse has hidden so far
HiddenSoFar ==
  {k \in 1 .. Len(navRows) :
     \A i \in PendingOf(toggles, "hideRow") : timers[i].idx # k - 1}

\* the summed height of the rows hidden so far
HiddenHeight ==
  SumTo([k \in 1 .. Len(navRows) |->
           IF k \in HiddenSoFar THEN navRowHeights[k] ELSE 0], Len(navRows))

\* C16: during a single collapse (no overlapping toggle), from the first
\* row-hide callback until the reset callback, the upward translation of
\* every title row and of the content container equals the summed height of
\* the rows hidden so far.
C16_ContentFollows ==
  (/\ solo
   /\ page.container
   /\ HiddenSoFar # {}
   /\ \E i \in 1 .. Len(timers) : timers[i].batch = toggles)
    => /\ \A k \in 1 .. Len(titleRows) : titleT[titleRows[k]] = Px(-HiddenHeight)
       /\ page.content => contentT = Px(-HiddenHeight)

\* both rows hidden: the content stays at the total height, 100 px, while
\* the container callback is pending
C16_Witness ==
  /\ solo
  /\ page.container
  /\ page.content
  /\ HiddenSoFar = {1, 2}
  /\ PendingOf(toggles, "hideContainer") # {}
  /\ lastOp.op = "tick"
  /\ titleT[1] = Px(-100)
  /\ titleT[2] = Px(-100)
  /\ contentT = Px(-100)

\* C17: the container's max-height is set to 0 at n*100 + 500 ms, after
\* every row-hide callback of that collapse, and the reset to identity
\* happens 150 ms after that and never before it.
C17_ContainerThenReset ==
  LET n == Len(navRows)
  IN /\ (lastOp.op = "timer" /\ lastOp.kind = "hideContainer") =>
          /\ lastOp.at * 50 = n * 100 + 500
          /\ lastOp.at * 50 > (n - 1) * 100
          /\ maxHeight = Bare(0)
          /\ PendingOf(lastOp.batch, "hideRow") = {}
          /\ \E i \in PendingOf(lastOp.batch, "reset") :
               timers[i].rem * 50 = 150 /\ timers[i].at = 0
     /\ (lastOp.op = "timer" /\ lastOp.kind = "reset") =>
          /\ lastOp.at * 50 = 150
          /\ NavRowsReset
          /\ ContentReset
     /\ \A i \in 1 .. Len(timers) :
          timers[i].kind = "reset" =>
            PendingOf(timers[i].batch, "hideContainer") = {}

C17_Witness ==
  /\ lastOp.op = "timer"
  /\ lastOp.kind = "reset"
  /\ lastOp.at = 3
  /\ Len(navRows) = 2
  /\ maxHeight = Bare(0)
  /\ sinceCollapse = 17

\* C18: isRowFolded(row) is true exactly when the row's top is above the
\* bottom of its immediate predecessor in displayedRowRegistry, and false
\* for the first row whatever its geometry.
C18_FoldTest ==
  foldResult.fn = "isRowFolded" =>
    foldResult.folded =
      (/\ foldResult.row > 1
       /\ rects[foldResult.row].top < rects[foldResult.row - 1].bottom)

\* the third row starts above the bottom of the second one
C18_Witness ==
  /\ foldResult.fn = "isRowFolded"
  /\ foldResult.row = 3
  /\ foldResult.folded
  /\ rects[3].top = 20
  /\ rects[2].bottom = 30

\* C19: for every folded row, expandRow computes distance = predecessor's
\* bottom minus the row's top (>= 0), returns distance * pace (>= 0), and the
\* translation it schedules for the row and every row after it has that
\* distance as its magnitude.
C19_NonNegativeDuration ==
  (foldResult.fn = "expandRow" /\ foldResult.folded) =>
    LET k == foldResult.row
        n == Len(displayedRowRegistry)
        distance == rects[k - 1].bottom - rects[k].top
    IN /\ distance >= 0
       /\ foldResult.distance = distance
       /\ foldResult.result = 100 * distance
       /\ foldResult.result >= 0
       /\ Len(foldTimers) >= n - k + 1
       /\ \A j \in 1 .. n - k + 1 :
            LET t == foldTimers[Len(foldTimers) - (n - k + 1) + j]
            IN t.el = displayedRowRegistry[k + j - 1] /\ t.distance = distance

RECURSIVE SumRets(_, _)
\* the sum of the durations returned by the first j calls
SumRets(calls, j) == IF j = 0 THEN 0 ELSE calls[j].ret + SumRets(calls, j - 1)

\* C20: expandRowFromIndex(k) processes the registry rows from the last one
\* down to index k; the base delay of each row is the sum of the durations
\* returned before it, so the base delays are non-decreasing in processing
\* order.
C20_CascadingDelays ==
  foldResult.fn = "expandRowFromIndex" =>
    LET calls == foldResult.calls
        n == Len(displayedRowRegistry)
    IN /\ Len(calls) = n - foldResult.row + 1
       /\ \A j \in 1 .. Len(calls) :
            /\ calls[j].row = n - j + 1
            /\ calls[j].base = SumRets(calls, j - 1)
       /\ \A j \in 1 .. Len(calls) - 1 : calls[j].base <= calls[j + 1].base

\* C21: in every state with no pending delayed or frame callback, whatever
\* the spacing of the toggles before it, an expanded navigation has a
\* container max-height equal to the sum of the nav-row heights, not 0.
C21_MaxHeightAgrees ==
  (~threw /\ page.container /\ timers = <<>> /\ frames = 0 /\ isNavExpanded)
    => /\ maxHeight = Px(SumTo(navRowHeights, Len(navRows)))
       /\ maxHeight # Bare(0)

\* C22: while expanded, after a frame callback has applied the mirroring
\* for the scroll position it read, every nav row keeps that translation
\* until the next frame callback or the next toggle: no delayed callback
\* overwrites it in between.
C22_MirrorKept ==
  mirrorHeld => navT = updateHeadersT(lastScrollTop, isNavExpanded)

\* C23: the frame callback reads the scroll position when it runs, not
\* when the scroll event that requested it arrived: after a burst of
\* coalesced scroll events lastScrollTop and the nav-row translations are
\* those of the last position of the burst.
C23_FrameReadsCurrentPosition ==
  lastOp.op = "frame" =>
    /\ lastOp.at = scrollTop
    /\ lastScrollTop = scrollTop
    /\ navT = updateHeadersT(scrollTop, isNavExpanded)
    /\ isNavExpanded =>
         \A k \in 1 .. Len(navRows) :
           navT[navRows[k]] =
             Px(-Min(Max(0, (scrollTop - 10) - SumTo(navRowHeights, k - 1)),
                     navRowHeights[k]))

\* the frame was requested at position 0 and ran after a coalesced event
\* had moved the container to 70
C23_Witness ==
  /\ lastOp.op = "frame"
  /\ lastOp.kind = "expanded"
  /\ lastOp.batch = 0
  /\ lastOp.at = 70
  /\ lastScrollTop = 70
  /\ Len(navRows) = 2
  /\ navT[1] = Px(-40)
  /\ navT[2] = Px(-20)

\* C24: when nav-toggle holds both an icon and a label, the label is
\* 'Less' exactly when the navigation is expanded and 'More' exactly when
\* it is not, in every state from construction on; only a toggle changes
\* the label.
C24_LabelTracksState ==
  /\ []((~threw /\ page.toggle /\ page.label)
          => /\ (label = "Less") <=> isNavExpanded
             /\ (label = "More") <=> ~isNavExpanded)
  /\ [][label' # label => lastOp'.op = "toggle"]_vars

\* a callback left by the collapse fires after the re-expand and the label
\* stays 'Less'
C24_Witness ==
  /\ label = "Less"
  /\ toggles = 3
  /\ lastOp.op = "timer"
  /\ lastOp.kind = "hideContainer"
  /\ isNavExpanded

\* C25: every pending delayed or frame callback eventually fires and, once
\* no further toggle or scroll event occurs, the set of pending callbacks
\* becomes and stays empty. A toggle registers n + 1 callbacks; a collapse's
\* container callback registers the one reset callback (n + 2 in all); no
\* other callback registers anything, and none registers itself again.
C25_Quiescence ==
  /\ (timers # <<>> \/ frames > 0) ~> (timers = <<>> /\ frames = 0)
  /\ <>[](lastOp.op \notin {"toggle", "scroll"})
       => <>[](timers = <<>> /\ frames = 0)
  /\ [](Len(timers) <= toggles * (Len(navRows) + 1))
  /\ [][lastOp'.op = "toggle"
          => Len(timers') = Len(timers)
                + (IF page.container THEN Len(navRows) + 1 ELSE 0)]_vars
  /\ [][lastOp'.op = "timer"
          => /\ Len(timers') = Len(timers)
                  - (IF lastOp'.kind = "hideContainer" THEN 0 ELSE 1)
             /\ Cardinality({i \in 1 .. Len(timers') :
                               /\ timers'[i].batch = lastOp'.batch
                               /\ timers'[i].kind = lastOp'.kind})
                  = Cardinality(PendingOf(lastOp'.batch, lastOp'.kind)) - 1
             /\ frames' = frames]_vars
  /\ [][lastOp'.op \in {"frame", "scroll", "tick"}
          => Len(timers') = Len(timers)]_vars
  /\ [][lastOp'.op = "frame" => frames' = frames - 1]_vars

\* both toggles' callbacks and a frame have run and nothing is pending
C25_Witness ==
  /\ timers = <<>>
  /\ frames = 0
  /\ toggles = 2
  /\ lastOp.op = "timer"
  /\ lastOp.kind = "reset"
  /\ lastScrollTop = 70
  /\ page.container

====
